---- MODULE Spec2Model ----
(***************************************************************************)
(* Model of fitting/proton_core_3D.py: iondistfitting, the 3-D             *)
(* bi-Maxwellian fit driver for one Helios ion distribution, with          *)
(* return_nans and the nested process_fitparams.                           *)
(*                                                                         *)
(* One call of iondistfitting is one behaviour.  The arguments are chosen  *)
(* in Init; the body is cut into five steps at the places where the code   *)
(* can return: the pre-fit gates, the magnetic field lookup, the           *)
(* least-squares fit, the post-fit gates and process_fitparams with the    *)
(* final assembly of the record.                                           *)
(*                                                                         *)
(* Numbers: floats are modelled by integers (velocities of the samples in  *)
(* m/s, every other velocity in km/s, time stamps in ticks of              *)
(* 1/TicksPerSecond s); np.nan is the value NaN with IEEE behaviour: every *)
(* comparison with it is false and arithmetic on it yields it.  Samples    *)
(* and optimizer results are finite numbers.  scipy's leastsq is outside   *)
(* the repository: its result is any element of a bounded set.             *)
(***************************************************************************)
EXTENDS Integers, Sequences, FiniteSets, TLC

VARIABLES dist, params, fit_1D, mag4hz, mag6s, starttime, I1a,
          pc, output, distf, magempty, B, fitparams, fitstatus, ret, steps

vars == <<dist, params, fit_1D, mag4hz, mag6s, starttime, I1a,
          pc, output, distf, magempty, B, fitparams, fitstatus, ret, steps>>

inputs == <<dist, params, fit_1D, mag4hz, mag6s, starttime, I1a>>

----------------------------------------------------------------------------
(* Bounds of the model *)

\* largest number of samples of a distribution
MaxSamples == 8
\* largest number of samples of a magnetic field series
MaxMagLen == 2
\* resolution of the time stamps of the field series
TicksPerSecond == 4

----------------------------------------------------------------------------
(* Floating point values *)

NaN == -999999999

\* an optional DataFrame argument: None, or the rows of the frame
None == [isNone |-> TRUE, rows |-> <<>>]
Some(rows) == [isNone |-> FALSE, rows |-> rows]

isnan(x) == x = NaN

\* x < y, x > y, x <= y on floats: false when either side is nan
Lt(x, y) == ~isnan(x) /\ ~isnan(y) /\ x < y
Gt(x, y) == ~isnan(x) /\ ~isnan(y) /\ x > y
Le(x, y) == ~isnan(x) /\ ~isnan(y) /\ x <= y

Mul(x, y) == IF isnan(x) \/ isnan(y) THEN NaN ELSE x * y
\* np.abs
Abs(x) == IF isnan(x) THEN NaN ELSE IF x < 0 THEN -x ELSE x

\* Series.max(), np.max, np.min: nan for an empty series
Max(S) == IF S = {} THEN NaN ELSE CHOOSE x \in S : \A y \in S : y <= x
Min(S) == IF S = {} THEN NaN ELSE CHOOSE x \in S : \A y \in S : x <= y

Range(s) == {s[i] : i \in DOMAIN s}

RECURSIVE SumSeq(_)
SumSeq(s) == IF s = <<>> THEN 0 ELSE Head(s) + SumSeq(Tail(s))

\* floor of the square root, for np.std and np.linalg.norm
ISqrt(n) == CHOOSE r \in 0..n : r * r <= n /\ (r + 1) * (r + 1) > n

----------------------------------------------------------------------------
(* statusdict and return_nans *)

statusdict == {1, 2, 3, 4, 5, 6, 9, 10, 11, 12, 13}

Keys == {"n_p", "vth_p_perp", "vth_p_par", "Tp_perp", "Tp_par",
         "vp_x", "vp_y", "vp_z", "Time", "Status", "Instrument",
         "B instrument", "Bx", "By", "Bz", "sigma B"}

\* return_nans starting from the partial output instead of a fresh record
return_nans_partial(status, time, instrument) ==
    [k \in Keys |-> CASE k = "Time" -> time
                      [] k = "Status" -> status
                      [] k = "Instrument" -> instrument
                      [] k \in DOMAIN output -> output[k]
                      [] OTHER -> NaN]

return_nans(status, time, instrument) ==
    [k \in Keys |-> CASE k = "Time" -> time
                      [] k = "Status" -> status
                      [] k = "Instrument" -> instrument
                      [] OTHER -> NaN]

\* dict.update / item assignment: the entries of d, overwritten by those of u
update(d, u) == u @@ d

----------------------------------------------------------------------------
(* The arguments of iondistfitting *)

\* unit vectors of the six directions a sample velocity can point in
Dirs == <<<<1, 0, 0>>, <<-1, 0, 0>>, <<0, 1, 0>>, <<0, -1, 0>>,
          <<0, 0, 1>>, <<0, 0, -1>>>>

\* Row k (0-based) of a distribution: the energy bin fixes the speed, seven
\* angular bins per energy bin; counts of row 0 negative when neg.
Sample(k, naz, nel, neg) ==
    LET e == 1 + (k \div 7)
        d == Dirs[1 + (k % 6)]
    IN [Az |-> k % naz, El |-> (k \div 3) % nel, E_bin |-> e,
        counts |-> IF neg /\ k = 0 THEN -1 ELSE k + 1,
        absv |-> 1000 * e,
        vx |-> 1000 * e * d[1], vy |-> 1000 * e * d[2], vz |-> 1000 * e * d[3],
        pdf |-> 10 * (k + 1)]

MkDist(n, naz, nel, neg) == [i \in 1..n |-> Sample(i - 1, naz, nel, neg)]

DistSet == {MkDist(n, naz, nel, neg) :
              n \in 6..MaxSamples, naz \in 2..3, nel \in 2..3, neg \in BOOLEAN}

\* the 1-D distribution I1a: rows of velocity (km/s) and distribution function
I1aSet == {<<>>,
           <<[v |-> 1, df |-> 2], [v |-> 2, df |-> 1]>>,
           <<[v |-> 1, df |-> 1], [v |-> 2, df |-> 2]>>,
           <<[v |-> 1, df |-> 1], [v |-> 1, df |-> 2]>>}

Fit1DSet == {[status |-> s] : s \in {1, 9}}

ParamsSet == {[ion_instrument |-> i, helios_vr |-> 3, helios_v |-> -2] :
                i \in {1, 2}}

StartTimes == {10}

\* Time stamps (ticks) of field samples around the measurement window of a
\* distribution starting at st: on its start, just inside it, and on the
\* end of the window of the first energy bin.
MagTimes(st) == {(st + 1) * TicksPerSecond, (st + 1) * TicksPerSecond + 1,
                 (st + 2) * TicksPerSecond}

\* strictly increasing sequences of at most MaxMagLen time stamps
TimeSeqs(st) ==
    {ts \in UNION {[1..n -> MagTimes(st)] : n \in 0..MaxMagLen} :
        \A i \in 1..(Len(ts) - 1) : ts[i] < ts[i + 1]}

\* the high-cadence series measures a field along x, the low-cadence series
\* one along z
Mag4hzSet(st) == {None} \cup
    {Some([i \in DOMAIN ts |-> [t |-> ts[i], Bx |-> 2 * i, By |-> 0, Bz |-> 0]]) :
        ts \in TimeSeqs(st)}

Mag6sSet(st) == {None} \cup
    {Some([i \in DOMAIN ts |-> [t |-> ts[i], Bx |-> 0, By |-> 0, Bz |-> 3]]) :
        ts \in TimeSeqs(st)}

Init ==
    /\ dist \in DistSet
    /\ params \in ParamsSet
    /\ fit_1D \in Fit1DSet
    /\ starttime \in StartTimes
    /\ mag4hz \in Mag4hzSet(starttime)
    /\ mag6s \in Mag6sSet(starttime)
    /\ I1a \in I1aSet
    /\ pc = "start"
    /\ output = <<>>
    /\ distf = <<>>
    /\ magempty = FALSE
    /\ B = <<NaN, NaN, NaN>>
    /\ fitparams = <<>>
    /\ fitstatus = 0
    /\ ret = <<>>
    /\ steps = {}

\* return value: the call ends with record r
Return(r) == /\ ret' = r
             /\ pc' = "done"

----------------------------------------------------------------------------
(* Lines 73-100: the pre-fit gates *)

\* dist[dist['|v|'] <= I1a['v'].max() * 1e3]
truncate(d, i1a) ==
    LET vmax == Max({i1a[i].v : i \in DOMAIN i1a})
    IN SelectSeq(d, LAMBDA s : Le(s.absv, Mul(vmax, 1000)))

\* I1a['df'].argmax(): position of the first largest value
argmax(i1a) ==
    LET m == Max({i1a[i].df : i \in DOMAIN i1a})
    IN Min({i \in DOMAIN i1a : i1a[i].df = m}) - 1

\* least number of rows that allows a fit, and of angular bins per direction
MinPoints == 6
MinBins == 3

\* the pre-fit gates with the angular bins counted before the points
pregate_binsfirst(d, i1a, f1d) ==
    LET df_ == truncate(d, i1a)
        phi_bins == Cardinality({df_[i].Az : i \in DOMAIN df_})
        theta_bins == Cardinality({df_[i].El : i \in DOMAIN df_})
        vmin == Min({df_[i].absv : i \in DOMAIN df_})
    IN IF f1d.status = 9 THEN 9
       ELSE IF \E i \in DOMAIN d : d[i].counts < 0 THEN 9
       ELSE IF phi_bins < MinBins \/ theta_bins < MinBins THEN 12
       ELSE IF Len(df_) <= MinPoints THEN 5
       ELSE IF Len(i1a) # 0 /\ Gt(vmin, Mul(argmax(i1a), 1000)) THEN 10
       ELSE 0

\* status of the first gate that rejects, 0 when all pass
pregate(d, i1a, f1d) ==
    LET df_ == truncate(d, i1a)
        phi_bins == Cardinality({df_[i].Az : i \in DOMAIN df_})
        theta_bins == Cardinality({df_[i].El : i \in DOMAIN df_})
        vmin == Min({df_[i].absv : i \in DOMAIN df_})
    IN IF f1d.status = 9 THEN 9
       ELSE IF \E i \in DOMAIN d : d[i].counts < 0 THEN 9
       ELSE IF Len(df_) <= MinPoints THEN 5
       ELSE IF phi_bins < MinBins \/ theta_bins < MinBins THEN 12
       ELSE IF Len(i1a) # 0 /\ Gt(vmin, Mul(argmax(i1a), 1000)) THEN 10
       ELSE 0

PreFitGates ==
    /\ pc = "start"
    /\ steps' = steps \cup {"pregates"}
    /\ output' = update(output, [Instrument |-> params.ion_instrument])
    /\ LET st == pregate(dist, I1a, fit_1D)
       IN IF st # 0
          THEN /\ Return(return_nans(st, starttime, params.ion_instrument))
               /\ UNCHANGED distf
          ELSE /\ distf' = truncate(dist, I1a)
               /\ pc' = "field"
               /\ UNCHANGED ret
    /\ UNCHANGED <<inputs, magempty, B, fitparams, fitstatus>>

----------------------------------------------------------------------------
(* Lines 102-157: the magnetic field during the measurement *)

E_bins(d) == {d[i].E_bin : i \in DOMAIN d}

\* starttime + timedelta(seconds=int(np.min(E_bins))), in ticks
dist_starttime(st, d) == (st + Min(E_bins(d))) * TicksPerSecond
\* starttime + timedelta(seconds=int(np.max(E_bins)) + 1), in ticks
dist_endtime(st, d) == (st + Max(E_bins(d)) + 1) * TicksPerSecond

\* m[np.logical_and(m.index > t0, m.index < t1)]
window(rows, t0, t1) == SelectSeq(rows, LAMBDA r : r.t > t0 /\ r.t < t1)

\* Lines 113-134: the series used, whether there is none, and the tag
select_mag(m4, m6, t0, t1) ==
    LET mag1 == IF m4.isNone THEN <<>> ELSE window(m4.rows, t0, t1)
        magempty1 == IF m4.isNone THEN TRUE ELSE mag1 = <<>>
    IN IF magempty1 /\ ~m6.isNone
       THEN LET mag2 == window(m6.rows, t0, t1)
            IN [mag |-> mag2, magempty |-> (mag2 = <<>>),
                Binstrument |-> IF mag2 = <<>> THEN NaN ELSE 2]
       ELSE [mag |-> mag1, magempty |-> magempty1, Binstrument |-> 1]

\* the first sample in place of the mean
mean_first(mag, c) == mag[1][c]

\* np.mean(mag, axis=0), component c
mean(mag, c) == SumSeq([i \in DOMAIN mag |-> mag[i][c]]) \div Len(mag)

\* np.linalg.norm(np.std(mag, axis=0))
sigma(mag) ==
    LET var(c) == SumSeq([i \in DOMAIN mag |->
                            (mag[i][c] - mean(mag, c)) * (mag[i][c] - mean(mag, c))])
                  \div Len(mag)
    IN ISqrt(var(1) + var(2) + var(3))

\* helpers.rotationmatrix: the rotation that takes b onto the z axis, for a
\* field along a coordinate axis
rotationmatrix(b) ==
    IF b[1] = 0 /\ b[2] = 0 THEN <<<<1, 0, 0>>, <<0, 1, 0>>, <<0, 0, 1>>>>
    ELSE IF b[2] = 0 /\ b[3] = 0 THEN <<<<0, 0, -1>>, <<0, 1, 0>>, <<1, 0, 0>>>>
    ELSE <<<<1, 0, 0>>, <<0, 0, -1>>, <<0, 1, 0>>>>

\* np.dot(M, v) and M.T
dot(M, v) == [i \in 1..3 |-> M[i][1] * v[1] + M[i][2] * v[2] + M[i][3] * v[3]]
transpose(M) == [i \in 1..3 |-> [j \in 1..3 |-> M[j][i]]]

ResolveField ==
    /\ pc = "field"
    /\ steps' = steps \cup {"field"}
    /\ LET sel == select_mag(mag4hz, mag6s, dist_starttime(starttime, distf),
                             dist_endtime(starttime, distf))
           mag == [i \in DOMAIN sel.mag |->
                     <<sel.mag[i].Bx, sel.mag[i].By, sel.mag[i].Bz>>]
           Bm == <<mean(mag, 1), mean(mag, 2), mean(mag, 3)>>
       IN /\ magempty' = sel.magempty
          /\ IF ~sel.magempty
             THEN /\ B' = Bm
                  /\ output' = update(output,
                        ("B instrument" :> sel.Binstrument) @@
                        ("Bx" :> Bm[1]) @@ ("By" :> Bm[2]) @@ ("Bz" :> Bm[3]) @@
                        ("sigma B" :> sigma(mag)))
             ELSE /\ B' = B
                  /\ output' = update(output,
                        ("B instrument" :> sel.Binstrument) @@
                        ("Bx" :> NaN) @@ ("By" :> NaN) @@ ("Bz" :> NaN) @@
                        ("sigma B" :> NaN))
    /\ pc' = "fit"
    /\ UNCHANGED <<inputs, distf, fitparams, fitstatus, ret>>

----------------------------------------------------------------------------
(* Lines 159-185: the least-squares fit *)

\* df = dist['pdf'].values and np.max(df)
df(d) == [i \in DOMAIN d |-> d[i].pdf]
maxdf(d) == Max(Range(df(d)))

\* vs = dist[['vx', 'vy', 'vz']].values / 1e3
vs(d) == [i \in DOMAIN d |-> <<d[i].vx \div 1000, d[i].vy \div 1000,
                                d[i].vz \div 1000>>]

\* values of ier that leastsq can report
FitStatuses == 0..5

\* fitted (A, vth_perp, vth_par, vbx, vby, vbz): amplitudes on both sides of
\* each end of the accepted range, thermal speeds on both sides of the
\* least accepted one and of zero, bulk velocities in and out of the samples
FitResults(d) ==
    {<<A, w[1], w[2], v[1], v[2], v[3]>> :
        A \in {maxdf(d) \div 10 - 1, maxdf(d) \div 10, 20 * maxdf(d),
               20 * maxdf(d) + 1},
        w \in {<<5, 6>>, <<5, 4>>, <<-7, 30>>},
        v \in {<<1, 0, 0>>, <<0, 0, -2>>, <<0, 0, 0>>, <<-2, 0, 0>>}}

Fit ==
    /\ pc = "fit"
    /\ steps' = steps \cup {"fit"}
    /\ fitstatus' \in FitStatuses
    /\ fitparams' \in FitResults(distf)
    /\ pc' = "postfit"
    /\ UNCHANGED <<inputs, output, distf, magempty, B, ret>>

----------------------------------------------------------------------------
(* Lines 187-201: the gates on the fit result *)

\* bounds of the amplitude as multiples of the largest measured value (the
\* lower one is 0.1, written as a divisor), and the least thermal speed
AmpMaxFactor == 20
AmpMinDivisor == 10
MinVth == 5

\* the gates on the fit result, the amplitude gate also without a field
postgate_nofield(fs, fp, d, me) ==
    IF fs \notin {1, 2, 3, 4} THEN 6
    ELSE IF (Gt(fp[1], AmpMaxFactor * maxdf(d)) \/
             Lt(Mul(AmpMinDivisor, fp[1]), maxdf(d))) THEN 11
    ELSE IF (Lt(fp[2], MinVth) \/ Lt(fp[3], MinVth)) /\ ~me THEN 12
    ELSE 0

\* the gates on the fit result, the parallel thermal speed not looked at
postgate_perponly(fs, fp, d, me) ==
    IF fs \notin {1, 2, 3, 4} THEN 6
    ELSE IF (Gt(fp[1], AmpMaxFactor * maxdf(d)) \/
             Lt(Mul(AmpMinDivisor, fp[1]), maxdf(d))) /\ ~me THEN 11
    ELSE IF Lt(fp[2], MinVth) /\ ~me THEN 12
    ELSE 0

\* status of the first gate that rejects the fit, 0 when all pass
postgate(fs, fp, d, me) ==
    IF fs \notin {1, 2, 3, 4} THEN 6
    ELSE IF (Gt(fp[1], AmpMaxFactor * maxdf(d)) \/
             Lt(Mul(AmpMinDivisor, fp[1]), maxdf(d))) /\ ~me THEN 11
    ELSE IF (Lt(fp[2], MinVth) \/ Lt(fp[3], MinVth)) /\ ~me THEN 12
    ELSE 0

PostFitGates ==
    /\ pc = "postfit"
    /\ steps' = steps \cup {"postgates"}
    /\ LET st == postgate(fitstatus, fitparams, distf, magempty)
       IN IF st # 0
          THEN Return(return_nans(st, starttime, params.ion_instrument))
          ELSE /\ pc' = "process"
               /\ UNCHANGED ret
    /\ UNCHANGED <<inputs, output, distf, magempty, B, fitparams, fitstatus>>

----------------------------------------------------------------------------
(* Lines 203-274: process_fitparams and the returned record *)

\* const.m_p / (2 k_B), in K per (km/s)^2
m_p == 61

\* helioplas.vth2temp: temperature of a thermal speed, mass times speed squared
vth2temp(v, m) == Mul(m, Mul(v, v))

\* np.power(np.pi, 1.5) * 1e3 * 1e3 * 1e3 * 1e-6
PiPow15e3 == 5568

norm2(v) == v[1] * v[1] + v[2] * v[2] + v[3] * v[3]

\* Lines 215-219: some component of v outside the range of the samples, or
\* v shorter than every sample velocity
outside(v, vsd) ==
    \E i \in 1..3 :
        \/ Lt(v[i], Min({vsd[j][i] : j \in DOMAIN vsd}))
        \/ Gt(v[i], Max({vsd[j][i] : j \in DOMAIN vsd}))
        \/ Lt(norm2(v), Min({norm2(vsd[j]) : j \in DOMAIN vsd}))

\* the bulk velocity left in the field-aligned frame
bulk_norotation(fp, me, b) == <<fp[4], fp[5], fp[6]>>

\* the bulk velocity in the spacecraft frame (lines 204-211)
bulk(fp, me, b) ==
    IF me THEN <<fp[4], fp[5], fp[6]>>
    ELSE dot(transpose(rotationmatrix(b)), <<fp[4], fp[5], fp[6]>>)

\* the fitted parameters after line 208, as process_fitparams goes on to read
\* them; the variable fitparams keeps the values the optimizer returned
settemps(fp, me) == IF me THEN [fp EXCEPT ![2] = NaN, ![3] = NaN] ELSE fp

\* number density in 1 / cm**3 (lines 230-235)
density(fp) == Mul(Mul(Mul(Mul(fp[1], PiPow15e3), Abs(fp[2])), Abs(fp[2])),
                   Abs(fp[3]))

\* process_fitparams without the number density in fit_dict
process_fitparams_nodensity(fp0, me, b, vsd, prm) ==
    LET fp == settemps(fp0, me)
        v == bulk(fp0, me, b)
    IN IF outside(v, vsd) THEN [int |-> 4]
       ELSE [vth_p_perp |-> Abs(fp[2]),
             vth_p_par |-> Abs(fp[3]),
             Tp_perp |-> vth2temp(Abs(fp[2]), m_p),
             Tp_par |-> vth2temp(Abs(fp[3]), m_p),
             vp_x |-> v[1] + prm.helios_vr,
             vp_y |-> v[2] + prm.helios_v,
             vp_z |-> v[3]]

\* process_fitparams(fitparams, 'p'): the integer 4 as [int |-> 4], or fit_dict
process_fitparams(fp0, me, b, vsd, prm) ==
    LET fp == settemps(fp0, me)
        v == bulk(fp0, me, b)
    IN IF outside(v, vsd) THEN [int |-> 4]
       ELSE [vth_p_perp |-> Abs(fp[2]),
             vth_p_par |-> Abs(fp[3]),
             Tp_perp |-> vth2temp(Abs(fp[2]), m_p),
             Tp_par |-> vth2temp(Abs(fp[3]), m_p),
             n_p |-> density(fp),
             vp_x |-> v[1] + prm.helios_vr,
             vp_y |-> v[2] + prm.helios_v,
             vp_z |-> v[3]]

\* isinstance(fit_dict, int)
isint(x) == "int" \in DOMAIN x

Finalize ==
    /\ pc = "process"
    /\ steps' = steps \cup {"process"}
    /\ LET fit_dict == process_fitparams(fitparams, magempty, B, vs(distf), params)
           status == IF magempty THEN 2 ELSE 1
           out == update(update(output, fit_dict),
                         [Time |-> starttime, Status |-> status,
                          Instrument |-> params.ion_instrument])
       IN IF isint(fit_dict)
          THEN /\ Return(return_nans(fit_dict.int, starttime,
                                     params.ion_instrument))
               /\ UNCHANGED output
          ELSE /\ output' = out
               /\ Return(out)
    /\ UNCHANGED <<inputs, distf, magempty, B, fitparams, fitstatus>>

Next == \/ PreFitGates
        \/ ResolveField
        \/ Fit
        \/ PostFitGates
        \/ Finalize

Spec == Init /\ [][Next]_vars

----------------------------------------------------------------------------
(* What the claims speak about, stated on the arguments of the call *)

\* rows of dist that survive the truncation to the largest velocity of I1a
KeptRows == {i \in DOMAIN dist : \E j \in DOMAIN I1a : dist[i].absv <= 1000 * I1a[j].v}

\* the conditions of the five pre-fit gates
MultipleDists == fit_1D.status = 9
NegativeCounts == \E i \in DOMAIN dist : dist[i].counts < 0
TooFewPoints == Cardinality(KeptRows) < 7
TooFewBins == LET K == KeptRows
              IN \/ Cardinality({dist[i].Az : i \in K}) < 3
                 \/ Cardinality({dist[i].El : i \in K}) < 3
PeakAbsent ==
    LET K == KeptRows
    IN /\ K # {}
       /\ \E p \in DOMAIN I1a :
             /\ \A q \in DOMAIN I1a : I1a[q].df <= I1a[p].df
             /\ \A q \in 1..(p - 1) : I1a[q].df < I1a[p].df
             /\ \A i \in K : dist[i].absv > 1000 * (p - 1)

PreFitRejected == MultipleDists \/ NegativeCounts \/ TooFewPoints \/ TooFewBins
                  \/ PeakAbsent

\* t lies strictly inside the measurement window of the kept rows
InWindow(t, K) ==
    /\ \E i \in K : t > (starttime + dist[i].E_bin) * TicksPerSecond
    /\ \E i \in K : t < (starttime + dist[i].E_bin + 1) * TicksPerSecond

InWindowRows(m) ==
    IF m.isNone THEN <<>>
    ELSE LET K == KeptRows IN SelectSeq(m.rows, LAMBDA r : InWindow(r.t, K))

\* the samples the field is taken from: high cadence first
FieldRows == LET r4 == InWindowRows(mag4hz)
             IN IF r4 # <<>> THEN r4 ELSE InWindowRows(mag6s)

FieldMean == LET r == FieldRows
             IN <<SumSeq([i \in DOMAIN r |-> r[i].Bx]) \div Len(r),
                  SumSeq([i \in DOMAIN r |-> r[i].By]) \div Len(r),
                  SumSeq([i \in DOMAIN r |-> r[i].Bz]) \div Len(r)>>

FieldKeys == {"Bx", "By", "Bz", "sigma B"}
FitKeys == {"n_p", "vth_p_perp", "vth_p_par", "Tp_perp", "Tp_par",
            "vp_x", "vp_y", "vp_z"}

Done == pc = "done"
FieldLooked == "field" \in steps
NoFieldContext == FieldLooked /\ FieldRows = <<>>
FieldContext == FieldLooked /\ FieldRows # <<>>

\* the fit result against the plausibility bounds
SolverFailed == fitstatus \notin 1..4
AmplitudeOut == LET K == KeptRows
                IN \/ \A i \in K : fitparams[1] > 20 * dist[i].pdf
                   \/ \E i \in K : 10 * fitparams[1] < dist[i].pdf
VthLow == fitparams[2] < 5 \/ fitparams[3] < 5

\* the fitted bulk velocity in the spacecraft frame
FittedBulk == IF FieldContext
              THEN dot(transpose(rotationmatrix(FieldMean)),
                       <<fitparams[4], fitparams[5], fitparams[6]>>)
              ELSE <<fitparams[4], fitparams[5], fitparams[6]>>

SampleV(i) == <<dist[i].vx \div 1000, dist[i].vy \div 1000, dist[i].vz \div 1000>>

AxisOutside == LET K == KeptRows
                   v == FittedBulk
               IN \E c \in 1..3 : \/ \A i \in K : v[c] < SampleV(i)[c]
                                  \/ \A i \in K : v[c] > SampleV(i)[c]
TooSlow == LET K == KeptRows
               v == FittedBulk
           IN \A i \in K : norm2(v) < norm2(SampleV(i))

----------------------------------------------------------------------------
(* Claims *)

\* C1: on every path the returned record has exactly the 16 keys and its
\* Status is one of the keys of statusdict.
C1_RecordShape ==
    Done => /\ DOMAIN ret = Keys
            /\ Cardinality(DOMAIN ret) = 16
            /\ ret["Status"] \in statusdict

\* a successful fit with field: the record assembled from the partial output
C1_Witness == Done /\ "process" \in steps /\ ret["Status"] = 1

\* C2: a terminal rejection returns nan in every field but Time, Status and
\* Instrument, whatever the partial output held.
C2_RejectionAllMissing ==
    (Done /\ ret["Status"] \in {4, 5, 6, 9, 10, 11, 12})
        => \A k \in Keys \ {"Time", "Status", "Instrument"} : ret[k] = NaN

\* a rejection after the field was written to the partial output
C2_Witness == /\ Done /\ ret["Status"] = 11
              /\ output["Bx"] # NaN /\ output["B instrument"] = 1

C10_SuccessBounds ==
    Done =>
        /\ ret["Status"] = 1 =>
              /\ FieldContext
              /\ ret["B instrument"] \in {1, 2}
              /\ \A k \in FieldKeys : ret[k] # NaN
              /\ ~AmplitudeOut
              /\ ret["vth_p_perp"] >= 5 /\ ret["vth_p_par"] >= 5
              /\ ret["vth_p_perp"] = fitparams[2]
              /\ ret["vth_p_par"] = fitparams[3]
              /\ ~AxisOutside
        /\ ret["Status"] = 2 => \A k \in FieldKeys : ret[k] = NaN

\* a success on the edge of the thermal speed and amplitude bounds
C10_Witness == /\ Done /\ ret["Status"] = 1 /\ ret["vth_p_perp"] = 5
               /\ \E i \in KeptRows : 10 * fitparams[1] = dist[i].pdf

\* C3: when field samples lie inside the measurement window, the returned
\* record carries their mean and sigma B when the fit passes every gate
\* (Status 1); when the fit fails or a post-fit gate rejects it (Status 6,
\* 11, 12 or 4) the four field entries are nan.
C3_FieldOnlyOnSuccess ==
    (Done /\ FieldContext) =>
        IF ret["Status"] = 1
        THEN /\ <<ret["Bx"], ret["By"], ret["Bz"]>> = FieldMean
             /\ ret["sigma B"] # NaN
             /\ ret["sigma B"] = output["sigma B"]
        ELSE /\ ret["Status"] \in {6, 11, 12, 4}
             /\ \A k \in FieldKeys : ret[k] = NaN

\* the fit fails after the mean field was written to the partial output
C3_Witness == /\ Done /\ FieldContext /\ ret["Status"] = 6
              /\ <<output["Bx"], output["By"], output["Bz"]>> = FieldMean
              /\ Len(FieldRows) = 2

\* C3 as stated: the mean field and sigma B are returned whatever the outcome
\* of the fit.
C3_FieldRegardless ==
    (Done /\ FieldContext) =>
        /\ <<ret["Bx"], ret["By"], ret["Bz"]>> = FieldMean
        /\ ret["sigma B"] # NaN

\* C6: when process_fitparams is reached (the solver status is accepted and
\* neither the amplitude nor the thermal speed gate rejected) and the bulk
\* velocity in the spacecraft frame has a component outside the range of
\* the samples on that axis, Status is 4 and density and temperatures are
\* nan.
C6_BulkOutsideReached ==
    (Done /\ "process" \in steps /\ AxisOutside) =>
        /\ ret["Status"] = 4
        /\ ret["n_p"] = NaN /\ ret["Tp_perp"] = NaN /\ ret["Tp_par"] = NaN

\* the rotation puts an in-range fitted velocity outside the samples
C6_Witness == /\ Done /\ "process" \in steps /\ AxisOutside /\ FieldContext
              /\ fitparams[4] = -2 /\ ret["Status"] = 4
              /\ \E i \in KeptRows : SampleV(i)[1] = -2

\* C6 as stated: a fitted bulk velocity outside the samples always gives
\* Status 4.
C6_BulkOutsideAlways ==
    (Done /\ "fit" \in steps /\ AxisOutside) =>
        /\ ret["Status"] = 4
        /\ ret["n_p"] = NaN /\ ret["Tp_perp"] = NaN /\ ret["Tp_par"] = NaN

\* C4: with no field sample in the window from either series and a fit that
\* passes, B instrument, the field, and the temperatures are nan and Status
\* is 2.
C4_NoFieldRecord ==
    (Done /\ NoFieldContext /\ ret["Status"] \in {1, 2}) =>
        /\ ret["B instrument"] = NaN
        /\ \A k \in FieldKeys : ret[k] = NaN
        /\ ret["Tp_perp"] = NaN /\ ret["Tp_par"] = NaN
        /\ ret["Status"] = 2

\* C8: the field comes from the samples strictly inside the window, from the
\* high-cadence series when it has one (tag 1), else from the low-cadence
\* series when it has one (tag 2), and the tag is 1 or 2 exactly when a
\* series supplied the field.
C8_FieldSelection ==
    FieldLooked =>
        /\ InWindowRows(mag4hz) # <<>> => output["B instrument"] = 1
        /\ (InWindowRows(mag4hz) = <<>> /\ InWindowRows(mag6s) # <<>>)
              => output["B instrument"] = 2
        /\ FieldRows # <<>>
              => <<output["Bx"], output["By"], output["Bz"]>> = FieldMean
        /\ output["B instrument"] \in {1, 2} <=> FieldRows # <<>>

\* C9: without field context a passing fit returns nan temperatures and
\* thermal speeds, the density A pi^1.5 vth_perp^2 vth_par of the fitted
\* parameters, and the fitted bulk velocity plus the aberration offsets.
C9_NoFieldDensity ==
    (Done /\ NoFieldContext /\ ret["Status"] = 2) =>
        /\ ret["Tp_perp"] = NaN /\ ret["Tp_par"] = NaN
        /\ ret["vth_p_perp"] = NaN /\ ret["vth_p_par"] = NaN
        /\ ret["n_p"] # NaN
        /\ ret["n_p"] = fitparams[1] * PiPow15e3 * fitparams[2] * fitparams[2]
                        * Abs(fitparams[3])
        /\ ret["vp_x"] = fitparams[4] + params.helios_vr
        /\ ret["vp_y"] = fitparams[5] + params.helios_v
        /\ ret["vp_z"] = fitparams[6]

====
